---- MODULE Spec2Model ----
(***************************************************************************)
(* grep-rust: a line-oriented search with before/after context.            *)
(* The model follows src/src/main.rs (main), src/src/my_lib.rs (GrepState, *)
(* run) and src/src/printer.rs (the records written to standard output).   *)
(* Texts are sequences of one-character strings (ASCII, one byte each).    *)
(***************************************************************************)
EXTENDS Integers, Sequences, FiniteSets, TLC

VARIABLES
    config,         \* the parsed Config (config.rs): immutable during a run
    fs,             \* the file at config.file_path: exists?, its lines
    patternTooBig,  \* whether Regex::new rejects the pattern (size limit)
    pc,             \* position of the process in main/run
    search_regex,   \* the compiled Regex of run()
    opened,         \* whether File::open has succeeded in this run
    state,          \* the GrepState of run()
    stdout,         \* records written to standard output, in order
    stderr,         \* messages written to the error stream, in order
    status,         \* process exit status, -1 while running
    runs,           \* number of the current invocation of the program
    prev            \* what the previous invocation left: stdout, stderr, status

vars == <<config, fs, patternTooBig, pc, search_regex, opened, state,
          stdout, stderr, status, runs, prev>>

-----------------------------------------------------------------------------
(* Bounds of the model *)

MaxLines == 4
MaxB == 2
MaxA == 2

-----------------------------------------------------------------------------
(* Inputs *)

\* Option<usize>
None == [some |-> FALSE, val |-> 0]
Some(n) == [some |-> TRUE, val |-> n]
unwrap_or(o, d) == IF o.some THEN o.val ELSE d

Queries == { <<"a">> }
LineTexts == { <<"a">>, <<"A", "b">> }

\* One item of reader.lines(): Ok(text) or Err (undecodable bytes, read error)
OkLine(t) == [ok |-> TRUE, text |-> t]
ErrLine == [ok |-> FALSE, text |-> <<>>]
LineResults == {OkLine(t) : t \in LineTexts} \cup {ErrLine}

SeqUpTo(S, n) == UNION {[1..k -> S] : k \in 0..n}

Configs ==
    [query : Queries,
     file_path : {"f"},
     ignore_case : BOOLEAN,
     line_number : BOOLEAN,
     word_regexp : BOOLEAN,
     before_context : {None} \cup {Some(n) : n \in 0..MaxB},
     after_context : {None} \cup {Some(n) : n \in 0..MaxA}]

Files ==
    {[exists |-> FALSE, lines |-> <<>>]}
    \cup {[exists |-> TRUE, lines |-> l] : l \in SeqUpTo(LineResults, MaxLines)}

-----------------------------------------------------------------------------
(* The regex crate, as far as run() uses it *)

MetaChars == {"\\", ".", "+", "*", "?", "(", ")", "|", "[", "]", "{", "}",
              "^", "$", "#", "&", "-", "~"}
WordChars == {"a", "b", "c", "s", "t", "A", "B", "_", "0", "1"}

\* [changed] the query is used as the pattern without escaping
escape_nothing(q) == q

\* regex::escape: a backslash before every meta character
RECURSIVE escape(_)
escape(q) ==
    IF q = <<>> THEN <<>>
    ELSE (IF Head(q) \in MetaChars THEN <<"\\", Head(q)>> ELSE <<Head(q)>>)
         \o escape(Tail(q))

\* pattern_string and the (?i) prefix of run()
WordPattern(q) == <<"\\", "b">> \o escape(q) \o <<"\\", "b">>
PatternString(cfg) ==
    IF cfg.word_regexp THEN WordPattern(cfg.query) ELSE escape(cfg.query)
FullPattern(cfg) ==
    IF cfg.ignore_case THEN <<"(", "?", "i", ")">> \o PatternString(cfg)
    ELSE PatternString(cfg)

HasPrefix(p, pre) == Len(p) >= Len(pre) /\ SubSeq(p, 1, Len(pre)) = pre
Drop(p, n) == SubSeq(p, n + 1, Len(p))

Lit(c) == [t |-> "lit", c |-> c]
WordBoundary == [t |-> "wb", c |-> ""]
AnyChar == [t |-> "any", c |-> ""]
BadItem == [t |-> "bad", c |-> ""]

\* The parser on the patterns run() builds: \b is a word boundary, a
\* backslash before a meta character is that character, any other
\* character stands for itself. Of the unescaped meta characters, "." is
\* any character, "#", "&", "-" and "~" stand for themselves, and the
\* others do not make a pattern alone.
RECURSIVE ParseItems(_)
ParseItems(p) ==
    IF p = <<>> THEN <<>>
    ELSE IF Head(p) = "\\"
    THEN IF Len(p) >= 2 /\ p[2] = "b" THEN <<WordBoundary>> \o ParseItems(Drop(p, 2))
         ELSE IF Len(p) >= 2 /\ p[2] \in MetaChars THEN <<Lit(p[2])>> \o ParseItems(Drop(p, 2))
         ELSE <<BadItem>>
    ELSE IF Head(p) = "." THEN <<AnyChar>> \o ParseItems(Tail(p))
    ELSE IF Head(p) \in MetaChars \ {"#", "&", "-", "~"} THEN <<BadItem>>
    ELSE <<Lit(Head(p))>> \o ParseItems(Tail(p))

\* Regex::new: Err when the pattern does not parse or exceeds the size limit
RegexErr == [ok |-> FALSE, icase |-> FALSE, items |-> <<>>]
RegexNew(p, tooBig) ==
    LET icase == HasPrefix(p, <<"(", "?", "i", ")">>)
        items == ParseItems(IF icase THEN Drop(p, 4) ELSE p)
    IN IF tooBig \/ \E k \in 1..Len(items) : items[k] = BadItem
       THEN RegexErr
       ELSE [ok |-> TRUE, icase |-> icase, items |-> items]

Fold(c) == IF c = "A" THEN "a" ELSE IF c = "B" THEN "b" ELSE c
CharEq(icase, x, y) == IF icase THEN Fold(x) = Fold(y) ELSE x = y

\* offsets are byte offsets, 0-based; text[off + 1] is the byte at off
IsWordAt(text, off) == off >= 0 /\ off < Len(text) /\ text[off + 1] \in WordChars
AtWordBoundary(text, off) == IsWordAt(text, off - 1) # IsWordAt(text, off)

\* end offset of the match of items[k..] starting at off, or -1
RECURSIVE MatchFrom(_, _, _, _)
MatchFrom(re, k, text, off) ==
    IF k > Len(re.items) THEN off
    ELSE IF re.items[k].t = "wb"
    THEN IF AtWordBoundary(text, off) THEN MatchFrom(re, k + 1, text, off) ELSE -1
    ELSE IF off < Len(text)
            /\ (re.items[k].t = "any" \/ CharEq(re.icase, text[off + 1], re.items[k].c))
    THEN MatchFrom(re, k + 1, text, off + 1)
    ELSE -1

\* Regex::find from offset `from`: the leftmost match, as <<start, end>>, or <<>>
find_at(re, text, from) ==
    LET starts == {s \in from..Len(text) : MatchFrom(re, 1, text, s) # -1}
    IN IF starts = {} THEN <<>>
       ELSE LET s == CHOOSE x \in starts : \A y \in starts : x <= y
            IN <<s, MatchFrom(re, 1, text, s)>>

\* search_regex.find(line).is_some()
is_match(re, text) == find_at(re, text, 0) # <<>>

\* Regex::find_iter: the successive non-overlapping matches, left to right;
\* an empty match at the end of the previous match is skipped
RECURSIVE find_iter_from(_, _, _, _)
find_iter_from(re, text, at, last_match_end) ==
    IF at > Len(text) THEN <<>>
    ELSE LET m == find_at(re, text, at)
         IN IF m = <<>> THEN <<>>
            ELSE IF m[1] = m[2] /\ m[2] = last_match_end
            THEN find_iter_from(re, text, at + 1, last_match_end)
            ELSE <<m>> \o find_iter_from(re, text, m[2], m[2])

find_iter(re, text) == find_iter_from(re, text, 0, -1)

-----------------------------------------------------------------------------
(* printer.rs: the records written to standard output *)

Note(opt, n) == [opt |-> opt, n |-> n]

\* print_search_info: the banner and the options it mentions
print_search_info(cfg, before_context_num, after_context_num) ==
    [kind |-> "info", num |-> 0, text |-> cfg.query,
     notes |-> (IF cfg.ignore_case THEN <<Note("ignore_case", 0)>> ELSE <<>>)
            \o (IF cfg.line_number THEN <<Note("line_number", 0)>> ELSE <<>>)
            \o (IF before_context_num > 0
                THEN <<Note("before_context", before_context_num)>> ELSE <<>>)
            \o (IF after_context_num > 0
                THEN <<Note("after_context", after_context_num)>> ELSE <<>>)]

\* print_line: a plain record
print_line(line_num, line_content) ==
    [kind |-> "plain", num |-> line_num, text |-> line_content, notes |-> <<>>]

\* print_highlighted_line: a match record
print_highlighted_line(line_num, line_content) ==
    [kind |-> "match", num |-> line_num, text |-> line_content, notes |-> <<>>]

\* What the two print functions write for a record: a sequence of
\* characters, each with the style it is written in. The newline that ends
\* the record is left out.
Styled(chars, style) == [k \in 1..Len(chars) |-> [c |-> chars[k], style |-> style]]

Digits == <<"0", "1", "2", "3", "4", "5", "6", "7", "8", "9">>

\* usize::to_string
RECURSIVE to_string(_)
to_string(n) ==
    IF n < 10 THEN <<Digits[n + 1]>>
    ELSE to_string(n \div 10) \o <<Digits[(n % 10) + 1]>>

\* "{}:  " with the number in blue
LinePrefix(line_num, with_line_number) ==
    IF with_line_number
    THEN Styled(to_string(line_num), "blue") \o Styled(<<":", " ", " ">>, "plain")
    ELSE <<>>

\* print_line: the prefix, then the content
render_line(line_num, line_content, with_line_number) ==
    LinePrefix(line_num, with_line_number) \o Styled(line_content, "plain")

\* [changed] last_end is not moved to the end of the match
RECURSIVE HighlightNoAdvance(_, _, _, _)
HighlightNoAdvance(text, spans, k, last_end) ==
    IF k > Len(spans)
    THEN Styled(SubSeq(text, last_end + 1, Len(text)), "plain")
    ELSE Styled(SubSeq(text, last_end + 1, spans[k][1]), "plain")
         \o Styled(SubSeq(text, spans[k][1] + 1, spans[k][2]), "green_bold")
         \o HighlightNoAdvance(text, spans, k + 1, last_end)

\* the loop over regex.find_iter and the rest after the last match
RECURSIVE HighlightFrom(_, _, _, _)
HighlightFrom(text, spans, k, last_end) ==
    IF k > Len(spans)
    THEN Styled(SubSeq(text, last_end + 1, Len(text)), "plain")
    ELSE Styled(SubSeq(text, last_end + 1, spans[k][1]), "plain")
         \o Styled(SubSeq(text, spans[k][1] + 1, spans[k][2]), "green_bold")
         \o HighlightFrom(text, spans, k + 1, spans[k][2])

\* [changed] the match line is written without the line-number prefix
render_highlighted_no_prefix(line_num, line_content, with_line_num, regex) ==
    HighlightFrom(line_content, find_iter(regex, line_content), 1, 0)

\* print_highlighted_line: the prefix, then the content with its matches
\* in green and bold
render_highlighted_line(line_num, line_content, with_line_num, regex) ==
    LinePrefix(line_num, with_line_num)
    \o HighlightFrom(line_content, find_iter(regex, line_content), 1, 0)

-----------------------------------------------------------------------------
(* my_lib.rs: GrepState and the three arms of the loop body of run() *)

\* [changed] only the line counter is reset
GrepStateStale ==
    [state EXCEPT !.line_count = 0]

GrepStateNew ==
    [line_count |-> 0,
     before_context_buffer |-> <<>>,
     lines_after_match |-> 0,
     printing_block_active |-> FALSE]

\* [changed] an absent before-context counts as 1
before_context_default_one == unwrap_or(config.before_context, 1)

before_context_num == unwrap_or(config.before_context, 0)
after_context_num == unwrap_or(config.after_context, 0)

\* [changed] a buffered line is numbered from 0
EntryZeroBased(num, text) == [num |-> num - 1, text |-> text]

Entry(num, text) == [num |-> num, text |-> text]

\* [changed] the buffer is printed newest first
DrainNewestFirst(buf) ==
    [k \in 1..Len(buf) |-> print_line(buf[Len(buf) + 1 - k].num, buf[Len(buf) + 1 - k].text)]

\* the records the drain(..) loop prints
DrainRecords(buf) == [k \in 1..Len(buf) |-> print_line(buf[k].num, buf[k].text)]

\* [changed] a match adds A to the owed after-context instead of setting it
MatchArmAccumulates(st, text, b, a) ==
    [st |-> [st EXCEPT !.before_context_buffer = <<>>,
                       !.lines_after_match = @ + a,
                       !.printing_block_active = TRUE],
     printed |-> (IF ~st.printing_block_active /\ b > 0
                  THEN DrainRecords(st.before_context_buffer) ELSE <<>>)
                 \o <<print_highlighted_line(st.line_count, text)>>]

\* Each arm gives the new GrepState and the records it prints; st already
\* has line_count incremented.
\* (true, _)
MatchArm(st, text, b, a) ==
    [st |-> [st EXCEPT !.before_context_buffer = <<>>,
                       !.lines_after_match = a,
                       !.printing_block_active = TRUE],
     printed |-> (IF ~st.printing_block_active /\ b > 0
                  THEN DrainRecords(st.before_context_buffer) ELSE <<>>)
                 \o <<print_highlighted_line(st.line_count, text)>>]

\* [changed] the after-context counter is not decremented
AfterContextArmNoDecrement(st, text, b, a) ==
    [st |-> [st EXCEPT !.printing_block_active = TRUE],
     printed |-> <<print_line(st.line_count, text)>>]

\* [changed] an after-context line is also kept in the before-context buffer
AfterContextArmBuffers(st, text, b, a) ==
    [st |-> [st EXCEPT !.lines_after_match = @ - 1,
                       !.printing_block_active = TRUE,
                       !.before_context_buffer = Append(@, Entry(st.line_count, text))],
     printed |-> <<print_line(st.line_count, text)>>]

\* (false, true)
AfterContextArm(st, text, b, a) ==
    [st |-> [st EXCEPT !.lines_after_match = @ - 1,
                       !.printing_block_active = TRUE],
     printed |-> <<print_line(st.line_count, text)>>]

\* [changed] the length test is >= instead of >
BufferArmOffByOne(st, text, b, a) ==
    LET pushed == Append(st.before_context_buffer, Entry(st.line_count, text))
    IN [st |-> [st EXCEPT !.before_context_buffer =
                              IF Len(pushed) >= b THEN Tail(pushed) ELSE pushed,
                          !.printing_block_active = FALSE],
        printed |-> <<>>]

\* [changed] nothing is evicted
BufferArmNoEvict(st, text, b, a) ==
    [st |-> [st EXCEPT !.before_context_buffer = Append(@, Entry(st.line_count, text)),
                       !.printing_block_active = FALSE],
     printed |-> <<>>]

\* [changed] the buffering path leaves printing_block_active as it is
BufferArmKeepsFlag(st, text, b, a) ==
    LET pushed == Append(st.before_context_buffer, Entry(st.line_count, text))
    IN [st |-> [st EXCEPT !.before_context_buffer =
                              IF Len(pushed) > b THEN Tail(pushed) ELSE pushed],
        printed |-> <<>>]

\* (false, false)
BufferArm(st, text, b, a) ==
    LET pushed == Append(st.before_context_buffer, Entry(st.line_count, text))
    IN [st |-> [st EXCEPT !.before_context_buffer =
                              IF Len(pushed) > b THEN Tail(pushed) ELSE pushed,
                          !.printing_block_active = FALSE],
        printed |-> <<>>]

\* [changed] the owed after-context is tested before is_match
SelectArmOwedFirst(m, owed) ==
    IF owed THEN "after" ELSE IF m THEN "match" ELSE "buffer"

\* match (is_match, state.lines_after_match > 0)
SelectArm(m, owed) ==
    IF m THEN "match" ELSE IF owed THEN "after" ELSE "buffer"

-----------------------------------------------------------------------------
(* The process *)

NoRegex == RegexErr

Init ==
    /\ config \in Configs
    /\ fs \in Files
    /\ patternTooBig \in BOOLEAN
    /\ pc = "run"
    /\ search_regex = NoRegex
    /\ opened = FALSE
    /\ state = [line_count |-> 0, before_context_buffer |-> <<>>,
                lines_after_match |-> 0, printing_block_active |-> FALSE]
    /\ stdout = <<>>
    /\ stderr = <<>>
    /\ status = -1
    /\ runs = 1
    /\ prev = [stdout |-> <<>>, stderr |-> <<>>, status |-> -1]

\* [changed] the result of Regex::new is not examined
RunCompileUnchecked ==
    /\ pc = "run"
    /\ stdout' = Append(stdout,
                        print_search_info(config, before_context_num, after_context_num))
    /\ search_regex' = RegexNew(FullPattern(config), patternTooBig)
    /\ pc' = "open"
    /\ UNCHANGED <<config, fs, patternTooBig, opened, state, stderr, status, runs, prev>>

\* run(), lines 64-84: the banner, then the pattern is built and compiled
RunCompile ==
    /\ pc = "run"
    /\ stdout' = Append(stdout,
                        print_search_info(config, before_context_num, after_context_num))
    /\ LET re == RegexNew(FullPattern(config), patternTooBig)
       IN /\ search_regex' = re
          /\ pc' = IF re.ok THEN "open" ELSE "err_pattern"
    /\ UNCHANGED <<config, fs, patternTooBig, opened, state, stderr, status, runs, prev>>

\* run(), lines 88-91: File::open(..)?, then GrepState::new()
OpenFile ==
    /\ pc = "open"
    /\ IF fs.exists
       THEN /\ opened' = TRUE
            /\ state' = GrepStateNew
            /\ pc' = "loop"
       ELSE /\ pc' = "err_io"
            /\ UNCHANGED <<opened, state>>
    /\ UNCHANGED <<config, fs, patternTooBig, search_regex, stdout, stderr, status,
                   runs, prev>>

HasNext == pc = "loop" /\ state.line_count < Len(fs.lines)
NextLine == fs.lines[state.line_count + 1]
Counted == [state EXCEPT !.line_count = @ + 1]

\* [changed] a line that cannot be read is skipped and the loop goes on
ReadFailSkips ==
    /\ pc = "loop" /\ state.line_count < Len(fs.lines)
    /\ ~fs.lines[state.line_count + 1].ok
    /\ state' = [state EXCEPT !.line_count = @ + 1]
    /\ UNCHANGED <<config, fs, patternTooBig, pc, search_regex, opened, stdout, stderr,
                   status, runs, prev>>

\* loop body, lines 95-96: the counter is incremented, then line_result? fails
ReadFail ==
    /\ HasNext
    /\ ~NextLine.ok
    /\ state' = Counted
    /\ pc' = "err_io"
    /\ UNCHANGED <<config, fs, patternTooBig, search_regex, opened, stdout, stderr,
                   status, runs, prev>>

Arm == SelectArm(is_match(search_regex, NextLine.text), state.lines_after_match > 0)

Apply(r) ==
    /\ state' = r.st
    /\ stdout' = stdout \o r.printed
    /\ UNCHANGED <<config, fs, patternTooBig, pc, search_regex, opened, stderr, status,
                   runs, prev>>

\* loop body, lines 95-129
MatchPath ==
    /\ HasNext
    /\ NextLine.ok
    /\ Arm = "match"
    /\ Apply(MatchArm(Counted, NextLine.text, before_context_num, after_context_num))

\* loop body, lines 95-105 and 132-137
AfterContextPath ==
    /\ HasNext
    /\ NextLine.ok
    /\ Arm = "after"
    /\ Apply(AfterContextArm(Counted, NextLine.text, before_context_num, after_context_num))

\* loop body, lines 95-105 and 140-153
BufferPath ==
    /\ HasNext
    /\ NextLine.ok
    /\ Arm = "buffer"
    /\ Apply(BufferArm(Counted, NextLine.text, before_context_num, after_context_num))

\* [changed] what is left in the before-context buffer is printed at the end
RunOkFlush ==
    /\ pc = "loop"
    /\ state.line_count = Len(fs.lines)
    /\ pc' = "ok"
    /\ stdout' = stdout \o DrainRecords(state.before_context_buffer)
    /\ UNCHANGED <<config, fs, patternTooBig, search_regex, opened, state,
                   stderr, status, runs, prev>>

\* run(), line 157: the line source is exhausted, Ok(())
RunOk ==
    /\ pc = "loop"
    /\ state.line_count = Len(fs.lines)
    /\ pc' = "ok"
    /\ UNCHANGED <<config, fs, patternTooBig, search_regex, opened, state, stdout,
                   stderr, status, runs, prev>>

ErrorMessage(p) == IF p = "err_pattern" THEN "Invalid regex pattern" ELSE "io error"

\* [changed] the message is printed but process::exit(1) is missing
MainErrNoExit ==
    /\ pc \in {"err_pattern", "err_io"}
    /\ stderr' = Append(stderr, ErrorMessage(pc))
    /\ status' = 0
    /\ pc' = "exited"
    /\ UNCHANGED <<config, fs, patternTooBig, search_regex, opened, state, stdout,
                   runs, prev>>

\* main(), lines 26-29: Err(e) => eprintln!, process::exit(1)
MainErr ==
    /\ pc \in {"err_pattern", "err_io"}
    /\ stderr' = Append(stderr, ErrorMessage(pc))
    /\ status' = 1
    /\ pc' = "exited"
    /\ UNCHANGED <<config, fs, patternTooBig, search_regex, opened, state, stdout,
                   runs, prev>>

\* main(), line 30: run returned Ok, main returns, status 0
MainOk ==
    /\ pc = "ok"
    /\ status' = 0
    /\ pc' = "exited"
    /\ UNCHANGED <<config, fs, patternTooBig, search_regex, opened, state, stdout,
                   stderr, runs, prev>>

Next ==
    \/ RunCompile
    \/ OpenFile
    \/ ReadFail
    \/ MatchPath
    \/ AfterContextPath
    \/ BufferPath
    \/ RunOk
    \/ MainErr
    \/ MainOk

Spec == Init /\ [][Next]_vars

-----------------------------------------------------------------------------
(* The same program on inputs that exercise the matcher: every query of up  *)
(* to MaxQueryLen characters and every one-line file with a line of up to   *)
(* MaxTextLen characters over MatchAlphabet, plus the line "a cat sat" and  *)
(* a few longer files.                                                      *)

MaxQueryLen == 2
MaxTextLen == 3

MatchAlphabet == {"a", "A", "-", "."}

ACatSat == <<"a", " ", "c", "a", "t", " ", "s", "a", "t">>

MatchConfigs ==
    [query : SeqUpTo(MatchAlphabet, MaxQueryLen),
     file_path : {"f"},
     ignore_case : BOOLEAN,
     line_number : {FALSE},
     word_regexp : BOOLEAN,
     before_context : {None},
     after_context : {None}]

MatchFiles ==
    {[exists |-> TRUE, lines |-> <<OkLine(t)>>] :
        t \in SeqUpTo(MatchAlphabet, MaxTextLen) \cup {ACatSat}}

ContextConfigs ==
    [query : {<<"a">>},
     file_path : {"f"},
     ignore_case : {FALSE},
     line_number : {TRUE},
     word_regexp : BOOLEAN,
     before_context : {Some(1)},
     after_context : {Some(1)}]

ContextFiles ==
    {[exists |-> FALSE, lines |-> <<>>]}
    \cup {[exists |-> TRUE, lines |-> l] :
            l \in SeqUpTo({OkLine(<<"a", "-", "a">>), OkLine(<<"A", "a">>), ErrLine}, MaxLines)}

InitMatch ==
    /\ \/ config \in MatchConfigs /\ fs \in MatchFiles /\ patternTooBig = FALSE
       \/ config \in ContextConfigs /\ fs \in ContextFiles /\ patternTooBig \in BOOLEAN
    /\ pc = "run"
    /\ search_regex = NoRegex
    /\ opened = FALSE
    /\ state = [line_count |-> 0, before_context_buffer |-> <<>>,
                lines_after_match |-> 0, printing_block_active |-> FALSE]
    /\ stdout = <<>>
    /\ stderr = <<>>
    /\ status = -1
    /\ runs = 1
    /\ prev = [stdout |-> <<>>, stderr |-> <<>>, status |-> -1]

SpecMatch == InitMatch /\ [][Next]_vars

\* The program is started again, with the same arguments on the same file
Rerun ==
    /\ pc = "exited"
    /\ runs = 1
    /\ runs' = 2
    /\ prev' = [stdout |-> stdout, stderr |-> stderr, status |-> status]
    /\ pc' = "run"
    /\ search_regex' = NoRegex
    /\ opened' = FALSE
    /\ stdout' = <<>>
    /\ stderr' = <<>>
    /\ status' = -1
    /\ UNCHANGED <<config, fs, patternTooBig, state>>

NextTwice == Next \/ Rerun

SpecTwice == Init /\ [][NextTwice]_vars

-----------------------------------------------------------------------------
(* Vocabulary of the properties *)

B == before_context_num
A == after_context_num
N == Len(fs.lines)

LineRecords(out) == SelectSeq(out, LAMBDA r : r.kind # "info")
Emitted(out) == {LineRecords(out)[k].num : k \in 1..Len(LineRecords(out))}
LastEmitted(out) ==
    IF LineRecords(out) = <<>> THEN 0 ELSE LineRecords(out)[Len(LineRecords(out))].num
Nums(out) == [k \in 1..Len(LineRecords(out)) |-> LineRecords(out)[k].num]
Kinds(out) == [k \in 1..Len(LineRecords(out)) |-> LineRecords(out)[k].kind]

\* line i of the file is a matching line for the configured pattern
Matching(i) ==
    /\ i \in 1..N
    /\ fs.lines[i].ok
    /\ is_match(RegexNew(FullPattern(config), FALSE), fs.lines[i].text)

\* the most recent matching line before line i, 0 if there is none
LastMatchBefore(i) ==
    IF \E j \in 1..(i - 1) : Matching(j)
    THEN CHOOSE j \in 1..(i - 1) : Matching(j) /\ \A h \in (j + 1)..(i - 1) : ~Matching(h)
    ELSE 0

PlainOf(i) == print_line(i, fs.lines[i].text)
MatchOf(i) == print_highlighted_line(i, fs.lines[i].text)

\* this step reads line j of the file successfully and processes it
Processes(j) ==
    /\ pc = "loop" /\ pc' = "loop"
    /\ state.line_count = j - 1
    /\ state'.line_count = j

RunSucceeded == pc = "ok" \/ (pc = "exited" /\ status = 0)

-----------------------------------------------------------------------------
(* C1: when run() finishes without error, the emitted line numbers are      *)
(* exactly the lines i with a matching line j such that j-B <= i <= j+A;    *)
(* every matching line is emitted as a match record, every other emitted    *)
(* line as a plain record, each with the text of its line.                  *)

Wanted == {i \in 1..N : \E j \in 1..N : Matching(j) /\ j - B <= i /\ i <= j + A}

C1_EmittedSet ==
    RunSucceeded =>
        /\ Emitted(stdout) = Wanted
        /\ \A k \in 1..Len(LineRecords(stdout)) :
             LET r == LineRecords(stdout)[k]
             IN r = (IF Matching(r.num) THEN MatchOf(r.num) ELSE PlainOf(r.num))

\* Scenario A: B = 1, A = 1, four lines, only line 2 matches: lines 1, 2, 3
C1_Witness ==
    /\ RunSucceeded
    /\ B = 1 /\ A = 1 /\ N = 4
    /\ {i \in 1..N : Matching(i)} = {2}
    /\ Nums(stdout) = <<1, 2, 3>>
    /\ Kinds(stdout) = <<"plain", "match", "plain">>

-----------------------------------------------------------------------------
(* C2: at an isolated match (line j matches and line j-1 was not emitted)   *)
(* exactly min(B, k) context lines are printed right before the match,      *)
(* k being the number of lines read since the start or since the last       *)
(* emitted line; they are the most recent such lines, oldest first.         *)

Min(x, y) == IF x <= y THEN x ELSE y

Isolated(j) == j = 1 \/ (j - 1) \notin Emitted(stdout)

BeforeContextOf(j) ==
    LET k == j - 1 - LastEmitted(stdout)
        c == Min(B, k)
    IN [h \in 1..c |-> PlainOf(j - c + h - 1)]

C2_BeforeContext ==
    [][\A j \in 1..N :
         (Processes(j) /\ Matching(j) /\ Isolated(j))
            => stdout' = stdout \o BeforeContextOf(j) \o <<MatchOf(j)>>]_vars

\* B = 2 and three unprinted lines before the match on line 4: lines 2, 3 printed
C2_Witness ==
    /\ B = 2
    /\ state.line_count = 4
    /\ Matching(4)
    /\ Nums(stdout) = <<2, 3, 4>>
    /\ Kinds(stdout) = <<"plain", "plain", "match">>

-----------------------------------------------------------------------------
(* C3: a non-matching line within A lines after the most recent match is    *)
(* printed as context when it is processed, and the owed count is what is   *)
(* left of A; a non-matching line further away is not printed as            *)
(* after-context; a match sets the owed count to A.                         *)

C3_AfterContext ==
    [][\A i \in 1..N :
         Processes(i) =>
            LET m == LastMatchBefore(i)
            IN IF Matching(i)
               THEN state'.lines_after_match = A
               ELSE IF m > 0 /\ i - m <= A
               THEN /\ stdout' = Append(stdout, PlainOf(i))
                    /\ state'.lines_after_match = A - (i - m)
               ELSE /\ stdout' = stdout
                    /\ state'.lines_after_match = 0]_vars

\* A = 2, match on line 1, lines 2 and 3 printed as context, line 4 not
C3_Witness ==
    /\ A = 2 /\ N = 4
    /\ state.line_count = 4
    /\ {i \in 1..N : Matching(i)} = {1}
    /\ Nums(stdout) = <<1, 2, 3>>
    /\ Kinds(stdout) = <<"match", "plain", "plain">>

-----------------------------------------------------------------------------
(* C4: every input line is emitted at most once; in particular a line       *)
(* emitted as after-context or as a match is not emitted again as           *)
(* before-context of a later match.                                         *)

C4_NoDuplicate ==
    \A p, q \in 1..Len(LineRecords(stdout)) :
        p # q => LineRecords(stdout)[p].num # LineRecords(stdout)[q].num

\* line 2 is after-context of the match on line 1 and lies within the
\* before-context window (B = 2) of the match on line 4
C4_Witness ==
    /\ B = 2 /\ A = 1
    /\ Matching(1) /\ Matching(4)
    /\ Nums(stdout) = <<1, 2, 3, 4>>
    /\ Kinds(stdout) = <<"match", "plain", "plain", "match">>

-----------------------------------------------------------------------------
(* C5: a matching line processed while the after-context counter is > 0    *)
(* takes the match path: it is emitted once, as a match record, and the     *)
(* counter is set to A.                                                     *)

C5_MatchPrecedence ==
    [][\A j \in 1..N :
         (Processes(j) /\ Matching(j) /\ state.lines_after_match > 0)
            => /\ stdout' = Append(stdout, MatchOf(j))
               /\ j \notin Emitted(stdout)
               /\ state'.lines_after_match = A]_vars

\* Scenario D: adjacent matches with A = 2
C5_Witness ==
    /\ A = 2
    /\ state.line_count = 2
    /\ Matching(1) /\ Matching(2)
    /\ Nums(stdout) = <<1, 2>>
    /\ Kinds(stdout) = <<"match", "match">>
    /\ state.lines_after_match = 2

-----------------------------------------------------------------------------
(* C6: the before-context buffer never holds more than B entries; a line    *)
(* appended to a full buffer evicts the oldest entry, so the buffer holds   *)
(* the most recent entries.                                                 *)

Buffer == state.before_context_buffer

LastOf(q, n) == SubSeq(q, Len(q) - n + 1, Len(q))

C6_BoundedBuffer ==
    /\ [](Len(Buffer) <= B)
    /\ [][\A j \in 1..N :
            (Processes(j) /\ ~Matching(j) /\ state.lines_after_match = 0)
               => LET pushed == Append(Buffer, Entry(j, fs.lines[j].text))
                  IN Buffer' = LastOf(pushed, Min(B, Len(pushed)))]_vars

\* B = 2, three lines buffered: line 1 was evicted
C6_Witness ==
    /\ B = 2
    /\ state.line_count = 3
    /\ Len(Buffer) = 2
    /\ Buffer[1].num = 2 /\ Buffer[2].num = 3
    /\ LineRecords(stdout) = <<>>

-----------------------------------------------------------------------------
(* C7: while no line read so far matches, no line record is written (the    *)
(* output is the banner alone); the lines left in the before-context        *)
(* buffer when the run has ended are not in the output.                     *)

Ended == pc \in {"ok", "err_io", "err_pattern", "exited"}

Banner == print_search_info(config, B, A)

C7_NoUnrealizedContext ==
    /\ (pc # "run" /\ \A i \in 1..state.line_count : ~Matching(i)) => stdout = <<Banner>>
    /\ Ended => \A k \in 1..Len(Buffer) : Buffer[k].num \notin Emitted(stdout)

\* Scenario B: four lines, none matches, B >= 1: the buffer is not empty at
\* the end and only the banner has been written
C7_Witness ==
    /\ pc = "exited" /\ status = 0
    /\ N = 4 /\ B = 2
    /\ \A i \in 1..N : ~Matching(i)
    /\ Len(Buffer) = 2
    /\ stdout = <<Banner>>

-----------------------------------------------------------------------------
(* C8: a second run with the same configuration over the same file writes   *)
(* the same output as the first; every run starts from line counter 0,      *)
(* empty buffer, counter 0, flag false.                                     *)

-----------------------------------------------------------------------------
(* C9: the process ends with status 0 exactly when the pattern compiled,    *)
(* the file opened and every line was read and processed; otherwise run()   *)
(* fails, main writes exactly one message to the error stream and the       *)
(* status is 1; after a failure nothing is opened, read or printed again.   *)

AllGood ==
    /\ RegexNew(FullPattern(config), patternTooBig).ok
    /\ fs.exists
    /\ \A i \in 1..N : fs.lines[i].ok

C9_ExitBehaviour ==
    /\ [](IF pc = "exited"
          THEN /\ status \in {0, 1}
               /\ (status = 0) <=> AllGood
               /\ status = 0 => (stderr = <<>> /\ opened /\ state.line_count = N)
               /\ status = 1 => Len(stderr) = 1
          ELSE status = -1 /\ stderr = <<>>)
    /\ [](pc = "ok" => AllGood)
    /\ [](pc \in {"err_pattern", "err_io"} => ~AllGood)
    /\ [][(pc = "err_pattern" \/ pc = "err_io")
            => /\ pc' = "exited"
               /\ opened' = opened /\ state' = state
               /\ stdout' = stdout /\ search_regex' = search_regex]_vars

\* a read fails on line 2 after line 1 was printed
C9_Witness ==
    /\ pc = "exited" /\ status = 1
    /\ Len(stderr) = 1
    /\ opened
    /\ state.line_count = 2
    /\ ~fs.lines[2].ok
    /\ Nums(stdout) = <<1>>

-----------------------------------------------------------------------------
(* C10: when the pattern built from the configuration cannot be compiled,   *)
(* the run fails before the file is opened: no line is read, the line       *)
(* counter stays 0 and no line record is written.                           *)

Uncompileable == ~RegexNew(FullPattern(config), patternTooBig).ok

C10_InvalidPatternFirst ==
    (Uncompileable /\ pc # "run") =>
        /\ pc \in {"err_pattern", "exited"}
        /\ ~opened
        /\ state.line_count = 0
        /\ LineRecords(stdout) = <<>>
        /\ pc = "exited" => status = 1

\* the pattern is rejected although the file exists and has matching lines
C10_Witness ==
    /\ Uncompileable
    /\ pc = "exited" /\ status = 1
    /\ fs.exists /\ N = 2
    /\ \A i \in 1..N : fs.lines[i].ok
    /\ ~opened
    /\ stdout = <<Banner>>

-----------------------------------------------------------------------------
(* C11: when reading line k fails the run stops there with an error: no     *)
(* record for line k or a later line is written, the buffered lines are     *)
(* not flushed, and the records written are exactly those of a run over     *)
(* the first k-1 lines.                                                     *)

\* what a run over the first n lines emits: the windows of the matching
\* lines among them, in file order
WantedIn(n) ==
    {i \in 1..n : \E j \in 1..n : Matching(j) /\ j - B <= i /\ i <= j + A}

RECURSIVE RecordsUpTo(_, _)
RecordsUpTo(i, n) ==
    IF i = 0 THEN <<>>
    ELSE RecordsUpTo(i - 1, n)
         \o (IF i \in WantedIn(n)
             THEN <<IF Matching(i) THEN MatchOf(i) ELSE PlainOf(i)>>
             ELSE <<>>)

ReadFailedAt(k) ==
    /\ pc \in {"err_io", "exited"}
    /\ opened
    /\ status # 0
    /\ state.line_count = k

C11_AbortAtFailure ==
    /\ [](\A k \in 1..N :
            ReadFailedAt(k) =>
               /\ ~fs.lines[k].ok
               /\ LineRecords(stdout) = RecordsUpTo(k - 1, k - 1)
               /\ \A h \in 1..Len(Buffer) : Buffer[h].num \notin Emitted(stdout))
    /\ [][(pc = "loop" /\ state.line_count < N /\ ~fs.lines[state.line_count + 1].ok)
            => (pc' = "err_io" /\ stdout' = stdout)]_vars

\* line 1 matched, line 2 is buffered, reading line 3 fails; line 4 matches
\* but is never reached
C11_Witness ==
    /\ ReadFailedAt(3)
    /\ pc = "exited"
    /\ N = 4 /\ B = 1 /\ A = 0
    /\ Matching(1) /\ Matching(4)
    /\ Len(Buffer) = 1
    /\ Nums(stdout) = <<1>>

-----------------------------------------------------------------------------
(* Vocabulary of the matcher properties *)

\* line i has been read and processed
Processed(i) == opened /\ i \in 1..state.line_count /\ fs.lines[i].ok

MatchRecords == SelectSeq(stdout, LAMBDA r : r.kind = "match")

\* the spans print_highlighted_line highlights in a match record
SpansOf(r) == find_iter(search_regex, r.text)

\* the query occurs in text at offset s, compared as the configuration says
OccursAt(text, q, s, icase) ==
    /\ s >= 0 /\ s + Len(q) <= Len(text)
    /\ \A k \in 1..Len(q) : CharEq(icase, text[s + k], q[k])

\* a non-word character or a string boundary on both sides of s..e
Surrounded(text, s, e) == ~IsWordAt(text, s - 1) /\ ~IsWordAt(text, e)

\* plain substring search
Contains(text, q) == \E s \in 0..Len(text) : OccursAt(text, q, s, FALSE)

-----------------------------------------------------------------------------
(* C12: in whole-word mode a line matches only through an occurrence of     *)
(* the pattern text that has a non-word character or a string boundary on   *)
(* both sides, and only such occurrences are highlighted (stated here for   *)
(* the queries of at least one character).                                  *)

C12_WholeWord ==
    (config.word_regexp /\ config.query # <<>>) =>
        \A k \in 1..Len(MatchRecords) :
            LET r == MatchRecords[k]
            IN /\ \E s \in 0..Len(r.text) :
                    /\ OccursAt(r.text, config.query, s, config.ignore_case)
                    /\ Surrounded(r.text, s, s + Len(config.query))
               /\ \A h \in 1..Len(SpansOf(r)) :
                    LET m == SpansOf(r)[h]
                    IN /\ m[2] = m[1] + Len(config.query)
                       /\ OccursAt(r.text, config.query, m[1], config.ignore_case)
                       /\ Surrounded(r.text, m[1], m[2])

-----------------------------------------------------------------------------
(* C13: with ignore-case and whole-word off, a line is a match exactly      *)
(* when it contains the query as a contiguous substring, whatever special   *)
(* characters the query holds: the escaped-pattern regex search agrees      *)
(* with plain substring search.                                             *)

C13_LiteralEquivalence ==
    (~config.ignore_case /\ ~config.word_regexp) =>
        \A i \in 1..N :
            Processed(i) =>
                /\ (MatchOf(i) \in {stdout[k] : k \in 1..Len(stdout)})
                      <=> Contains(fs.lines[i].text, config.query)
                /\ is_match(search_regex, fs.lines[i].text)
                      <=> Contains(fs.lines[i].text, config.query)

\* the query "-." holds two meta characters and the line "a-." contains it
C13_Witness ==
    /\ ~config.ignore_case /\ ~config.word_regexp
    /\ config.query = <<"-", ".">>
    /\ pc = "exited" /\ status = 0
    /\ N = 1 /\ fs.lines[1].text = <<"a", "-", ".">>
    /\ Kinds(stdout) = <<"match">>

-----------------------------------------------------------------------------
(* C14: exactly one banner is written, before any line record, and it       *)
(* mentions each of ignore-case, line numbers, whole-word, before-context   *)
(* and after-context exactly when that option has a non-default value.      *)

InfoRecords == SelectSeq(stdout, LAMBDA r : r.kind = "info")

Mentions(banner, opt) == \E k \in 1..Len(banner.notes) : banner.notes[k].opt = opt

C14_Banner ==
    pc # "run" =>
        /\ Len(InfoRecords) = 1
        /\ stdout[1].kind = "info"
        /\ Mentions(stdout[1], "ignore_case") <=> config.ignore_case
        /\ Mentions(stdout[1], "line_number") <=> config.line_number
        /\ Mentions(stdout[1], "word_regexp") <=> config.word_regexp
        /\ Mentions(stdout[1], "before_context") <=> (B > 0)
        /\ Mentions(stdout[1], "after_context") <=> (A > 0)

-----------------------------------------------------------------------------
(* C15: with line numbers enabled every line record, plain or match, is     *)
(* the line's number, a colon, and the line's text; with line numbers       *)
(* disabled it is the text alone. As the code writes it, the colon is       *)
(* followed by two spaces.                                                  *)

\* what is written for a line record of standard output
Rendered(r) ==
    IF r.kind = "match"
    THEN render_highlighted_line(r.num, r.text, config.line_number, search_regex)
    ELSE render_line(r.num, r.text, config.line_number)

\* the characters written, without their colours
Strip(tokens) == [k \in 1..Len(tokens) |-> tokens[k].c]

\* the claim as stated: <num>:<text>
C15_NumColonText ==
    \A k \in 1..Len(LineRecords(stdout)) :
        LET r == LineRecords(stdout)[k]
        IN Strip(Rendered(r)) =
              IF config.line_number THEN to_string(r.num) \o <<":">> \o r.text
              ELSE r.text

\* the claim as amended: <num>:<two spaces><text>
C15_RecordFormat ==
    \A k \in 1..Len(LineRecords(stdout)) :
        LET r == LineRecords(stdout)[k]
        IN Strip(Rendered(r)) =
              IF config.line_number THEN to_string(r.num) \o <<":", " ", " ">> \o r.text
              ELSE r.text

\* a plain record and a match record written with line numbers
C15_Witness ==
    /\ config.line_number
    /\ Nums(stdout) = <<1, 2>>
    /\ Kinds(stdout) = <<"plain", "match">>
    /\ Strip(Rendered(stdout[3])) = <<"2", ":", " ", " ">> \o fs.lines[2].text

-----------------------------------------------------------------------------
(* C16: absent before-context and after-context count as 0, and with B = 0  *)
(* and A = 0 the line records are exactly the matching lines read so far,   *)
(* each as a match record, no context line is written, and the              *)
(* before-context buffer is empty after every line.                         *)

RECURSIVE MatchesUpTo(_)
MatchesUpTo(n) ==
    IF n = 0 THEN <<>>
    ELSE MatchesUpTo(n - 1) \o (IF Matching(n) THEN <<MatchOf(n)>> ELSE <<>>)

OnlyMatches ==
    /\ LineRecords(stdout) = MatchesUpTo(IF opened THEN state.line_count ELSE 0)
    /\ Buffer = <<>>

C16_Defaults ==
    /\ (~config.before_context.some /\ ~config.after_context.some) => OnlyMatches
    /\ (B = 0 /\ A = 0) => OnlyMatches

\* neither option given: of four lines the two matching ones are written
C16_Witness ==
    /\ ~config.before_context.some /\ ~config.after_context.some
    /\ pc = "exited" /\ status = 0
    /\ N = 4
    /\ {i \in 1..N : Matching(i)} = {2, 4}
    /\ Nums(stdout) = <<2, 4>>
    /\ Kinds(stdout) = <<"match", "match">>

-----------------------------------------------------------------------------
(* C17: the after-context counter is always between 0 and A; a match sets   *)
(* it to A, a non-matching line met with the counter > 0 is printed and     *)
(* takes exactly 1 off it, and a non-matching line met with the counter at  *)
(* 0 leaves it at 0 and prints nothing.                                     *)

Owed == state.lines_after_match

C17_CounterRange ==
    /\ [](Owed >= 0 /\ Owed <= A)
    /\ [][\A j \in 1..N :
            Processes(j) =>
               IF Matching(j) THEN Owed' = A
               ELSE IF Owed > 0
               THEN Owed' = Owed - 1 /\ stdout' = Append(stdout, PlainOf(j))
               ELSE Owed' = 0 /\ stdout' = stdout]_vars

\* A = 2: the counter went 2, 1, 0 over lines 1..3
C17_Witness ==
    /\ A = 2
    /\ pc = "loop"
    /\ state.line_count = 3
    /\ Owed = 0
    /\ state.printing_block_active
    /\ Kinds(stdout) = <<"match", "plain", "plain">>

-----------------------------------------------------------------------------
(* C18: for every match line the spans are within the line, non-overlapping *)
(* and in left-to-right order; the renderer writes plain and highlighted    *)
(* segments in byte order, the highlight lying exactly on the spans; and    *)
(* without the markup the record is the prefix and the line text unchanged. *)

PrefixLen(r) == IF config.line_number THEN Len(to_string(r.num)) + 3 ELSE 0

InSpan(spans, off) == \E h \in 1..Len(spans) : spans[h][1] <= off /\ off < spans[h][2]

C18_HighlightIntact ==
    \A k \in 1..Len(MatchRecords) :
        LET r == MatchRecords[k]
            spans == SpansOf(r)
            out == Rendered(r)
        IN /\ \A h \in 1..Len(spans) :
                /\ 0 <= spans[h][1] /\ spans[h][1] <= spans[h][2]
                /\ spans[h][2] <= Len(r.text)
                /\ h < Len(spans) => spans[h][2] <= spans[h + 1][1]
           /\ Len(out) = PrefixLen(r) + Len(r.text)
           /\ SubSeq(Strip(out), PrefixLen(r) + 1, Len(out)) = r.text
           /\ \A off \in 0..(Len(r.text) - 1) :
                (out[PrefixLen(r) + off + 1].style = "green_bold") <=> InSpan(spans, off)

\* the query "a" on the line "a-a": two spans with plain text between them
C18_Witness ==
    /\ config.query = <<"a">>
    /\ Len(MatchRecords) = 1
    /\ MatchRecords[1].text = <<"a", "-", "a">>
    /\ SpansOf(MatchRecords[1]) = << <<0, 1>>, <<2, 3>> >>
    /\ ~config.line_number
    /\ Rendered(MatchRecords[1]) =
          <<[c |-> "a", style |-> "green_bold"], [c |-> "-", style |-> "plain"],
            [c |-> "a", style |-> "green_bold"]>>

-----------------------------------------------------------------------------
(* C19: the line records are written in strictly increasing line-number     *)
(* order and each carries the 1-based position of its line in the file,     *)
(* buffered lines included; the line counter grows by exactly 1 with each   *)
(* line taken from the file and never passes the number of lines.           *)

C19_OrderAndNumbering ==
    /\ [](LET recs == LineRecords(stdout)
          IN /\ \A k \in 1..Len(recs) :
                  /\ recs[k].num \in 1..state.line_count
                  /\ fs.lines[recs[k].num].ok
                  /\ recs[k].text = fs.lines[recs[k].num].text
                  /\ k < Len(recs) => recs[k].num < recs[k + 1].num
             /\ state.line_count <= N)
    /\ [][(pc = "loop" /\ (state' # state \/ stdout' # stdout))
            => state'.line_count = state.line_count + 1]_vars

\* lines 1 and 2 were buffered and are written, with their own numbers,
\* when line 3 matches
C19_Witness ==
    /\ B = 2
    /\ state.line_count = 3
    /\ Nums(stdout) = <<1, 2, 3>>
    /\ Kinds(stdout) = <<"plain", "plain", "match">>
    /\ fs.lines[1].text # fs.lines[3].text

-----------------------------------------------------------------------------
(* C20: after every processed line, a set printing-block flag means an      *)
(* empty buffer, and a non-empty buffer means a counter of 0 and            *)
(* consecutive line numbers ending at the current line; a match that finds  *)
(* a non-empty buffer flushes it, so with B > 0 the clear discards no       *)
(* unprinted line.                                                          *)

C20_BufferFlagCoupling ==
    /\ []((pc \in {"loop", "ok"}) =>
            /\ state.printing_block_active => Buffer = <<>>
            /\ Buffer # <<>> =>
                 /\ Owed = 0
                 /\ \A h \in 1..Len(Buffer) :
                      Buffer[h].num = state.line_count - Len(Buffer) + h)
    /\ [][\A j \in 1..N :
            (Processes(j) /\ Matching(j) /\ Buffer # <<>>) =>
               /\ ~state.printing_block_active
               /\ B > 0
               /\ \A h \in 1..Len(Buffer) : Buffer[h].num \in Emitted(stdout')]_vars

\* B = 1: after the match on line 1, lines 2 and 3 are buffered (2 is
\* evicted) and the match on line 4 flushes line 3
C20_Witness ==
    /\ B = 1 /\ A = 0
    /\ state.line_count = 4
    /\ Nums(stdout) = <<1, 3, 4>>
    /\ Kinds(stdout) = <<"match", "plain", "match">>
    /\ Buffer = <<>>
    /\ state.printing_block_active

====
